---- MODULE Spec2Model ----
(***************************************************************************)
(* stack-update: the change set lifecycle of run() in main.go.             *)
(*                                                                         *)
(* run() creates a change set, polls until it is created, shows the        *)
(* changes, asks the operator, executes the change set, polls until it is  *)
(* executed, and deletes the change set in a deferred function unless the  *)
(* execution was seen complete.  The model follows run() from the return   *)
(* of DescribeStacks on; every place where run() can block (a remote       *)
(* call, the select of a wait loop, the read of the answer) is a value of  *)
(* pc, and the code between two such places is one action.                 *)
(***************************************************************************)
EXTENDS Integers, Sequences, FiniteSets, TLC

\* Bound of the model: status fetches per wait loop.
MaxFetches == 3

\* Bound of the model: pages a bucket listing has.
MaxPages == 2

\* io.LimitReader(os.Stdin, 10)
InputLimit == 10

\* if len(template) > 51_200
InlineLimit == 51200

VARIABLES
    pc,                  \* where run() is blocked, "done" once it has returned
    cancelled,           \* the run context (signal.NotifyContext) is done
    cancelAt,            \* pc at the moment the signal arrived, "none" before
    remote,              \* the change set as the service holds it
    deferred,            \* the deferred delete function is registered
    skipChangeSetDelete, \* the local variable of that name
    descOut,             \* the local variable of that name
    err,                 \* the value run() returns
    ret,                 \* source line of the return statement taken, 0 before
    calls,               \* the remote calls issued so far, in order
    dead,                \* the call in flight was issued under a done context
    resp,                \* the call that returned last, with its outcome
    stdout,              \* what was written to os.Stdout
    logs,                \* what was written through log
    input,               \* the bytes the operator supplied on os.Stdin
    nfetch,              \* status fetches issued in the current wait loop
    args,                \* flag.Args() after the template file: Key=Value
    template,            \* len(template), the bytes of the template file
    inp,                 \* the local variable of that name
    createOut,           \* the local variable of that name
    bucket,              \* the local variable of that name in uploadTemplate
    npages               \* pages of the bucket listing asked for

vars == <<pc, cancelled, cancelAt, remote, deferred, skipChangeSetDelete,
          descOut, err, ret, calls, dead, resp, stdout, logs, input, nfetch,
          args, template, inp, createOut, bucket, npages>>

\* What run() has before the CreateChangeSet call and keeps as it is after.
prep == <<args, template, inp, bucket, npages>>

----------------------------------------------------------------------------
(* The values of the service's types as run() tells them apart: the        *)
(* statuses and execution statuses named in its switches, and              *)
(* DELETE_FAILED, UNAVAILABLE, EXECUTE_FAILED and OBSOLETE for those it    *)
(* leaves to the default branches.                                         *)

\* StatusReason is a *string: nil, empty, or a text (a sequence of words).
NilReason == [isnil |-> TRUE, text |-> <<>>]

Reason(t) == [isnil |-> FALSE, text |-> t]

StatusReasons ==
    {NilReason, Reason(<<>>), Reason(<<"no", "updates">>),
     Reason(<<"run", "DescribeEvents", "for", "details">>)}

\* descOut.Changes: the Type of each entry.
ChangeLists ==
    {<<>>, <<"Resource">>, <<"Resource", "Resource">>, <<"Resource", "Hook">>}

\* The change set on the service, none before it is created: the stack
\* and the name it was created under, and the id the service gave it.
NoChangeSet ==
    [exists |-> FALSE, status |-> "CREATE_PENDING", exec |-> "UNAVAILABLE",
     reason |-> NilReason, changes |-> <<>>,
     stack |-> "", name |-> <<>>, id |-> <<>>]

NilDesc ==
    [status |-> "", exec |-> "", reason |-> NilReason, changes |-> <<>>]

NilErr == [msg |-> "nil", cause |-> "none"]

Error(m, c) == [msg |-> m, cause |-> c]

NoResp == [op |-> "none", res |-> "none"]

\* stack := desc.Stacks[0]: its name, its id (an ARN, here the fields
\* between its colons) and the keys of its parameters.
Stack ==
    [name |-> "orders-svc",
     id |-> <<"arn", "aws", "cloudformation", "eu-west-1", "123456789012",
              "stack/orders-svc/1f2e">>,
     params |-> <<"Version", "Region">>]

\* The arguments after the template file: none, or one Key=Value pair for
\* a parameter of the stack.
ArgLists == {<<>>, <<[key |-> "Version", value |-> "v2"]>>}

\* len(template): the largest template passed inline, and one byte more.
TemplateSizes == {51200, 51201}

\* changeSetID := "cs-" + rand.Text()
changeSetID == <<"cs-", "rand.Text">>

\* The id the service gives a change set created under a stack and a name.
IdOf(stack, name) == <<"arn", "changeSet", stack, name>>

NilOut == [id |-> <<>>]

NilURL == [host |-> <<>>, path |-> <<>>]

NilInp == [stack |-> "", name |-> <<>>, params |-> <<>>, body |-> "nil",
           url |-> NilURL]

\* A bucket name is a sequence of its parts; none is the empty string.
NoBucket == <<>>

\* What a page of the bucket listing can hold: nothing, a bucket of
\* another region, a bucket of the region named otherwise, a bucket named
\* after the region, and lists of these.
BucketPages ==
    LET other == <<"cf", "-", "templates", "-", "k3x", "-", "us-east-1">>
        plain == <<"cf", "-", "templates", "-", "mine">>
        here  == <<"cf", "-", "templates", "-", "k3x", "-", "eu-west-1">>
        also  == <<"cf", "-", "templates", "-", "q7z", "-", "eu-west-1">>
    IN  {<<>>, <<other>>, <<plain>>, <<here>>, <<other, here, also>>}

----------------------------------------------------------------------------
(* Contexts and remote calls.                                              *)

\* StackName and ChangeSetName of the request that changes the stack's
\* change set, shows it or deletes it.  ChangeSetName holds a name,
\* together with StackName, or an id alone.
NoTarget == [stackName |-> "", changeSetName |-> <<>>]

\* The same with a name made anew for the delete request.
TargetRegenerated(op) ==
    CASE op = "CreateChangeSet" ->
           [stackName |-> Stack.name, changeSetName |-> changeSetID]
      [] op = "DeleteChangeSet" ->
           [stackName |-> Stack.name,
            changeSetName |-> <<"cs-", "rand.Text", "again">>]
      [] op \in {"DescribeChangeSet", "DescribeEvents", "ExecuteChangeSet"} ->
           [stackName |-> "", changeSetName |-> createOut.id]
      [] OTHER -> NoTarget

Target(op) ==
    CASE op \in {"CreateChangeSet", "DeleteChangeSet"} ->
           [stackName |-> Stack.name, changeSetName |-> changeSetID]
      [] op \in {"DescribeChangeSet", "DescribeEvents", "ExecuteChangeSet"} ->
           [stackName |-> "", changeSetName |-> createOut.id]
      [] OTHER -> NoTarget

\* Whether the service takes a request's StackName and ChangeSetName for
\* the change set cs.
Resolves(to, cs) ==
    /\ cs.exists
    /\ \/ to.changeSetName = cs.id
       \/ to.stackName = cs.stack /\ to.changeSetName = cs.name

\* A remote call is made under the run context (ctx of run) or under the
\* context the deferred function derives for itself.
Call(op, ctx) == [op |-> op, ctx |-> ctx, to |-> Target(op)]

\* Whether a call issued now under ctx starts with its context already done.
IsDead(ctx) == ctx = "run" /\ cancelled

\* How a call in flight can end: a call whose context was done when it was
\* issued fails with the context's error; otherwise it succeeds, fails on
\* the service's or the transport's account, fails with the cancellation
\* if the run context is done by now, or runs into the deadline of the
\* deferred function's context.
Outcomes(ctx) ==
    IF dead THEN {"canceled"}
    ELSE {"ok", "remote"}
         \cup (IF ctx = "run" /\ cancelled THEN {"canceled"} ELSE {})
         \cup (IF ctx = "cleanup" THEN {"deadline"} ELSE {})

Issued(op) == \E i \in 1..Len(calls) : calls[i].op = op

----------------------------------------------------------------------------
(* The confirmation line: bufio.NewReader(io.LimitReader(os.Stdin, 10))    *)
(* .ReadString('\n'), then strings.ToLower(strings.TrimSpace(input)).      *)
(* A string is a sequence of one-character strings.                        *)

Whitespace == {" ", "\t", "\r", "\n"}

\* What the operator may have put on standard input before closing it or
\* leaving it: answers with and without the newline, in both cases, with
\* blanks around, longer than the reader's limit, and followed by more.
Inputs ==
    {<<"y", "\n">>, <<"Y", "\n">>, <<"y", "e", "s", "\n">>,
     <<"Y", "e", "S", "\n">>, <<" ", "y", "e", "s", " ", "\r", "\n">>,
     <<"N", "\n">>, <<"n", "o", "\n">>, <<"\n">>, <<>>, <<"y">>,
     <<"y", "e", "s">>, <<"y", "e", "s", "s", "\n">>, <<"y", "e", "\n">>,
     <<"y", "e", "s", "\n", "n", "o", "\n">>,
     <<"n", "\n", "y", "e", "s", "\n">>,
     <<" ", " ", " ", " ", " ", " ", " ", " ", "y", "\n">>,
     <<" ", " ", " ", " ", " ", " ", " ", " ", " ", "y", "\n">>,
     <<" ", " ", " ", " ", " ", " ", " ", "y", "e", "s", "\n">>,
     <<"y", "y", "y", "y", "y", "y", "y", "y", "y", "y", "y", "y", "\n">>}

Unread == [read |-> FALSE, bytes |-> <<>>]

\* io.LimitReader: at most n bytes of the input, then EOF.
LimitReader(in, n) == SubSeq(in, 1, IF Len(in) < n THEN Len(in) ELSE n)

\* bufio.Reader.ReadString: the bytes up to and including the first delim;
\* without one, all the bytes and io.EOF.
ReadString(buf, delim) ==
    LET at == {i \in 1..Len(buf) : buf[i] = delim}
    IN  IF at = {}
        THEN [line |-> buf, eof |-> TRUE]
        ELSE [line |-> SubSeq(buf, 1, CHOOSE i \in at : \A j \in at : i <= j),
              eof |-> FALSE]

RECURSIVE TrimLeft(_)
TrimLeft(s) ==
    IF s # <<>> /\ Head(s) \in Whitespace THEN TrimLeft(Tail(s)) ELSE s

RECURSIVE TrimRight(_)
TrimRight(s) ==
    IF s # <<>> /\ s[Len(s)] \in Whitespace
    THEN TrimRight(SubSeq(s, 1, Len(s) - 1))
    ELSE s

\* strings.TrimSpace
TrimSpace(s) == TrimRight(TrimLeft(s))

LowerOf(c) ==
    CASE c = "Y" -> "y"
      [] c = "E" -> "e"
      [] c = "S" -> "s"
      [] c = "N" -> "n"
      [] c = "O" -> "o"
      [] OTHER -> c

\* strings.ToLower
ToLower(s) == [i \in 1..Len(s) |-> LowerOf(s[i])]

\* A gate that goes on unless the answer is a no.
AnswerIsNotNo(s) == s \notin {<<"n">>, <<"n", "o">>}

\* case "y", "yes":
AnswerIsYes(s) == s \in {<<"y">>, <<"y", "e", "s">>}

----------------------------------------------------------------------------
(* The switches of the two wait loops, and the table of changes.           *)

\* A switch that keeps polling on a status it does not know.
CreateClassifyLenient(status) ==
    CASE status = "CREATE_COMPLETE" -> "advance"
      [] status = "FAILED" -> "failed"
      [] OTHER -> "continue"

\* switch descOut.Status
CreateClassify(status) ==
    CASE status \in {"CREATE_PENDING", "CREATE_IN_PROGRESS"} -> "continue"
      [] status = "CREATE_COMPLETE" -> "advance"
      [] status = "FAILED" -> "failed"
      [] OTHER -> "unexpected"

\* types.ExecutionStatus: the values descOut.ExecutionStatus can have.
ExecutionStatus ==
    {"UNAVAILABLE", "AVAILABLE", "EXECUTE_IN_PROGRESS", "EXECUTE_COMPLETE",
     "EXECUTE_FAILED", "OBSOLETE"}

\* A switch that goes on waiting after the execution failed.
ExecuteClassifyPatient(exec) ==
    CASE exec \in {"EXECUTE_IN_PROGRESS", "EXECUTE_FAILED"} -> "continue"
      [] exec = "EXECUTE_COMPLETE" -> "complete"
      [] OTHER -> "failed"

\* A switch that leaves the loop with a failure while the execution is in
\* progress.
ExecuteClassifyHasty(exec) ==
    CASE exec = "EXECUTE_COMPLETE" -> "complete"
      [] OTHER -> "failed"

\* A switch that takes a failed execution for a complete one.
ExecuteClassifyForgiving(exec) ==
    CASE exec = "EXECUTE_IN_PROGRESS" -> "continue"
      [] exec \in {"EXECUTE_COMPLETE", "EXECUTE_FAILED"} -> "complete"
      [] OTHER -> "failed"

\* A switch that takes an execution in progress for a complete one.
ExecuteClassifyEager(exec) ==
    CASE exec \in {"EXECUTE_IN_PROGRESS", "EXECUTE_COMPLETE"} -> "complete"
      [] OTHER -> "failed"

\* A switch without the case for the complete execution.
ExecuteClassifyNoComplete(exec) ==
    CASE exec = "EXECUTE_IN_PROGRESS" -> "continue"
      [] OTHER -> "failed"

\* switch descOut.ExecutionStatus
ExecuteClassify(exec) ==
    CASE exec = "EXECUTE_IN_PROGRESS" -> "continue"
      [] exec = "EXECUTE_COMPLETE" -> "complete"
      [] OTHER -> "failed"

\* A loop that goes on to the switch whatever the call returned.
PollErrorSwallowed(res) == FALSE

\* if err != nil, after DescribeChangeSet
PollError(res) == res # "ok"

\* A check that takes any reason for one that points to the events.
ContainsAny(text, word) == TRUE

\* strings.Contains(*descOut.StatusReason, "DescribeEvents")
Contains(text, word) == \E i \in 1..Len(text) : text[i] = word

\* A table written line by line, with no tabwriter to hold it.
DiffTableUnbuffered(changes) ==
    LET bad == {i \in 1..Len(changes) : changes[i] # "Resource"}
        upto == IF bad = {} THEN Len(changes)
                ELSE (CHOOSE i \in bad : \A j \in bad : i <= j) - 1
        held == <<"header">> \o [i \in 1..upto |-> "row"]
    IN  IF Len(changes) = 0
        THEN [ok |-> TRUE, held |-> <<>>, flushed |-> <<>>]
        ELSE [ok |-> bad = {}, held |-> <<>>, flushed |-> held]

\* A table whose header is written for an empty list of changes too.
DiffTableBareHeader(changes) ==
    LET bad == {i \in 1..Len(changes) : changes[i] # "Resource"}
        upto == IF bad = {} THEN Len(changes)
                ELSE (CHOOSE i \in bad : \A j \in bad : i <= j) - 1
        held == <<"header">> \o [i \in 1..upto |-> "row"]
    IN  IF bad = {}
        THEN [ok |-> TRUE, held |-> <<>>, flushed |-> held]
        ELSE [ok |-> FALSE, held |-> held, flushed |-> <<>>]

\* The tabwriter holds the header and the rows until Flush; a change of
\* another type returns before the Flush.
DiffTable(changes) ==
    LET bad == {i \in 1..Len(changes) : changes[i] # "Resource"}
        upto == IF bad = {} THEN Len(changes)
                ELSE (CHOOSE i \in bad : \A j \in bad : i <= j) - 1
        held == <<"header">> \o [i \in 1..upto |-> "row"]
    IN  IF Len(changes) = 0
        THEN [ok |-> TRUE, held |-> <<>>, flushed |-> <<>>]
        ELSE IF bad = {}
             THEN [ok |-> TRUE, held |-> <<>>, flushed |-> held]
             ELSE [ok |-> FALSE, held |-> held, flushed |-> <<>>]

\* What DescribeChangeSet reports of the change set.
Snapshot(cs) ==
    [status |-> cs.status, exec |-> cs.exec, reason |-> cs.reason,
     changes |-> cs.changes]

----------------------------------------------------------------------------
(* Leaving run(): the return statement, then the deferred function.        *)

\* A deferred function that forgets the flag.
AlwaysDelete(skip) == TRUE

\* if skipChangeSetDelete { return }
ShouldDelete(skip) == ~skip

\* A deferred function that reuses the context of run().
CleanupCtxOuter == "run"

\* ctx, cancel := context.WithTimeout(context.Background(), 10*time.Second)
CleanupCtx == "cleanup"

\* return e at the given line, with skipChangeSetDelete as it stands there
\* and cs the calls issued so far.  The deferred function, if registered,
\* runs next: it returns at once or issues DeleteChangeSet and waits.
Return(line, e, skip, cs) ==
    /\ ret' = line
    /\ err' = e
    /\ skipChangeSetDelete' = skip
    /\ IF deferred /\ ShouldDelete(skip)
       THEN /\ pc' = "deleteCall"
            /\ calls' = Append(cs, Call("DeleteChangeSet", CleanupCtx))
            /\ dead' = IsDead(CleanupCtx)
       ELSE /\ pc' = "done"
            /\ calls' = cs
            /\ dead' = FALSE

\* Issue a call under the run context and wait for it at pc = at.
Issue(op, at) ==
    /\ pc' = at
    /\ calls' = Append(calls, Call(op, "run"))
    /\ dead' = IsDead("run")
    /\ UNCHANGED <<ret, err, skipChangeSetDelete>>

\* Go on to the blocking place at, with no call in flight.
Goto(at) ==
    /\ pc' = at
    /\ dead' = FALSE
    /\ UNCHANGED <<calls, ret, err, skipChangeSetDelete>>

Returned(op, res) == [op |-> op, res |-> res]

----------------------------------------------------------------------------
(* run(), from the return of DescribeStacks on.                            *)

Init ==
    /\ pc = "begin"
    /\ args \in ArgLists
    /\ template \in TemplateSizes
    /\ inp = NilInp
    /\ createOut = NilOut
    /\ bucket = NoBucket
    /\ npages = 0
    /\ cancelled = FALSE
    /\ cancelAt = "none"
    /\ remote = NoChangeSet
    /\ deferred = FALSE
    /\ skipChangeSetDelete = FALSE
    /\ descOut = NilDesc
    /\ err = NilErr
    /\ ret = 0
    /\ calls = <<>>
    /\ dead = FALSE
    /\ resp = NoResp
    /\ stdout = <<>>
    /\ logs = <<>>
    /\ input = Unread
    /\ nfetch = 0

\* The parameters of the request: one for each parameter of the stack.
Parameters(keys) ==
    [i \in 1..Len(keys) |->
        [key |-> keys[i], usePrevious |-> TRUE, value |-> "nil"]]

\* arnRegion: the fourth of the fields between the colons of an ARN.
arnRegion(arn) ==
    IF ~(Len(arn) >= 2 /\ arn[1] = "arn")
    THEN [region |-> "", ok |-> FALSE]
    ELSE LET region == IF Len(arn) >= 4 THEN arn[4] ELSE ""
         IN  [region |-> region, ok |-> region # ""]

\* strings.HasSuffix
HasSuffix(name, suffix) ==
    /\ Len(name) >= Len(suffix)
    /\ SubSeq(name, Len(name) - Len(suffix) + 1, Len(name)) = suffix

\* A discovery that takes the first bucket of a page whatever its name.
FirstOfPage(page, suffix) ==
    IF page = <<>> THEN NoBucket ELSE page[1]

\* The loop over page.Buckets: the first bucket with the suffix, if any.
FirstMatch(page, suffix) ==
    LET hits == {i \in 1..Len(page) : HasSuffix(page[i], suffix)}
    IN  IF hits = {} THEN NoBucket
        ELSE page[CHOOSE i \in hits : \A j \in hits : i <= j]

\* The URL uploadTemplate returns for the object it has put.
TemplateURL(region, b) ==
    [host |-> <<"s3.", region, ".amazonaws.com">>,
     path |-> <<b, Stack.name, "sha256(template)">>]

\* An error of uploadTemplate as run() returns it.
UploadFailed(cause) ==
    Return(99, Error("uploading template", cause), FALSE, calls)

\* From the return of DescribeStacks to the first call after it: the
\* parameters and the request are built; a template too big to be passed
\* inline is uploaded first, beginning with the listing of the buckets.
Prepare ==
    /\ pc = "begin"
    /\ inp' = [stack |-> Stack.name, name |-> changeSetID,
               params |-> Parameters(Stack.params), body |-> "inline",
               url |-> NilURL]
    /\ IF template > InlineLimit
       THEN IF ~arnRegion(Stack.id).ok
            THEN /\ Return(95, Error("arnRegion", "none"), FALSE, calls)
                 /\ UNCHANGED npages
            ELSE /\ Issue("ListBuckets", "listCall")
                 /\ npages' = 1
       ELSE /\ Goto("start")
            /\ UNCHANGED npages
    /\ UNCHANGED <<args, template, bucket, createOut>>
    /\ UNCHANGED <<cancelled, cancelAt, remote, deferred, descOut, resp,
                   stdout, logs, input, nfetch>>

\* p.NextPage returns: an error ends the upload; a bucket with the suffix
\* ends the listing and is put to; otherwise the next page is asked for,
\* and after the last page no bucket has been discovered.
ListBucketsReturn ==
    /\ pc = "listCall"
    /\ \E res \in Outcomes("run"), page \in BucketPages, more \in BOOLEAN :
        LET b == FirstMatch(page, <<"-", arnRegion(Stack.id).region>>)
        IN  /\ npages = MaxPages => ~more
            /\ resp' = Returned("ListBuckets", res)
            /\ IF res # "ok"
               THEN UploadFailed(res) /\ UNCHANGED <<bucket, npages>>
               ELSE IF b # NoBucket
                    THEN /\ bucket' = b
                         /\ Issue("PutObject", "putCall")
                         /\ UNCHANGED npages
                    ELSE IF more
                         THEN /\ Issue("ListBuckets", "listCall")
                              /\ npages' = npages + 1
                              /\ UNCHANGED bucket
                         ELSE /\ UploadFailed("cannot discover bucket")
                              /\ UNCHANGED <<bucket, npages>>
    /\ UNCHANGED <<args, template, inp, createOut>>
    /\ UNCHANGED <<cancelled, cancelAt, remote, deferred, descOut, stdout,
                   logs, input, nfetch>>

\* PutObject returns: an error ends the upload; otherwise uploadTemplate
\* returns, its locals are gone, and the request refers to the uploaded
\* template by its URL.
PutObjectReturn ==
    /\ pc = "putCall"
    /\ \E res \in Outcomes("run") :
        /\ resp' = Returned("PutObject", res)
        /\ IF res # "ok"
           THEN UploadFailed(res) /\ UNCHANGED <<inp, bucket, npages>>
           ELSE /\ inp' = [inp EXCEPT
                              !.body = "nil",
                              !.url = TemplateURL(arnRegion(Stack.id).region,
                                                  bucket)]
                /\ bucket' = NoBucket
                /\ npages' = 0
                /\ Goto("start")
    /\ UNCHANGED <<args, template, createOut>>
    /\ UNCHANGED <<cancelled, cancelAt, remote, deferred, descOut, stdout,
                   logs, input, nfetch>>

\* createOut, err := svc.CreateChangeSet(ctx, inp)
CreateChangeSet ==
    /\ pc = "start"
    /\ Issue("CreateChangeSet", "createCall")
    /\ UNCHANGED <<prep, createOut>>
    /\ UNCHANGED <<cancelled, cancelAt, remote, deferred, descOut, resp,
                   stdout, logs, input, nfetch>>

\* The call returns; on an error run() returns it, the deferred function
\* not yet registered; otherwise the function is registered and the create
\* wait loop entered.  A request that failed may still have reached the
\* service.
CreateChangeSetReturn ==
    /\ pc = "createCall"
    /\ \E res \in Outcomes("run"), applied \in BOOLEAN :
        /\ res = "ok" => applied
        /\ dead => ~applied
        /\ resp' = Returned("CreateChangeSet", res)
        /\ remote' = IF applied
                     THEN [NoChangeSet EXCEPT
                              !.exists = TRUE, !.stack = inp.stack,
                              !.name = inp.name,
                              !.id = IdOf(inp.stack, inp.name)]
                     ELSE remote
        /\ IF res # "ok"
           THEN /\ Return(107, Error("CreateChangeSet", res), FALSE, calls)
                /\ UNCHANGED <<deferred, logs, createOut>>
           ELSE /\ createOut' = [id |-> IdOf(inp.stack, inp.name)]
                /\ deferred' = TRUE
                /\ logs' = Append(logs, "waiting until change set is ready")
                /\ Goto("createWait")
    /\ UNCHANGED prep
    /\ UNCHANGED <<cancelled, cancelAt, descOut, stdout, input, nfetch>>

\* select: case <-ticker.C, then the DescribeChangeSet call is issued.
CreateWaitTick ==
    /\ pc = "createWait"
    /\ nfetch < MaxFetches
    /\ nfetch' = nfetch + 1
    /\ Issue("DescribeChangeSet", "createFetch")
    /\ UNCHANGED <<prep, createOut>>
    /\ UNCHANGED <<cancelled, cancelAt, remote, deferred, descOut, resp,
                   stdout, logs, input>>

\* select: case <-ctx.Done(): return ctx.Err()
CreateWaitDone ==
    /\ pc = "createWait"
    /\ cancelled
    /\ Return(134, Error("context", "canceled"), FALSE, calls)
    /\ UNCHANGED <<prep, createOut>>
    /\ UNCHANGED <<cancelled, cancelAt, remote, deferred, descOut, resp,
                   stdout, logs, input, nfetch>>

\* A check that lets every execution status pass.
AvailableOrNot(exec) == TRUE

\* The check of descOut.ExecutionStatus after the create wait loop.
Available(exec) == exec = "AVAILABLE"

\* After create-complete: the execution status check, the table of
\* changes, the prompt; run() then blocks reading the answer.
Advance(d) ==
    IF ~Available(d.exec)
    THEN /\ Return(162, Error("unexpected change set execution status", "none"),
                   FALSE, calls)
         /\ UNCHANGED stdout
    ELSE LET t == DiffTable(d.changes)
         IN  IF ~t.ok
             THEN /\ Return(170, Error("unsupported change type", "none"),
                            FALSE, calls)
                  /\ stdout' = stdout \o t.flushed
             ELSE /\ stdout' = stdout \o t.flushed
                                \o <<"", "Do you want to continue? [y/N] ">>
                  /\ Goto("prompt")

\* case types.ChangeSetStatusFailed
CreateFailed(d) ==
    IF ~d.reason.isnil /\ d.reason.text # <<>>
    THEN IF Contains(d.reason.text, "DescribeEvents")
         THEN Issue("DescribeEvents", "eventsCall")
         ELSE Return(153, Error("change set create: status, reason", "none"),
                     FALSE, calls)
    ELSE Return(155, Error("change set create: status", "none"), FALSE, calls)

\* The DescribeChangeSet call of the create wait loop returns, and the
\* switch on descOut.Status is taken.
DescribeCreateReturn ==
    /\ pc = "createFetch"
    /\ \E res \in Outcomes("run") :
        /\ res = "ok" => Resolves(calls[Len(calls)].to, remote)
        /\ LET d == IF res = "ok" THEN Snapshot(remote) ELSE NilDesc
               c == CreateClassify(d.status)
           IN  /\ resp' = Returned("DescribeChangeSet", res)
               /\ descOut' = d
               /\ IF PollError(res)
                  THEN /\ Return(139, Error("DescribeChangeSet", res), FALSE, calls)
                       /\ UNCHANGED stdout
                  ELSE CASE c = "continue" -> Goto("createWait") /\ UNCHANGED stdout
                         [] c = "advance" -> Advance(d)
                         [] c = "failed" -> CreateFailed(d) /\ UNCHANGED stdout
                         [] OTHER ->
                              /\ Return(157, Error("unexpected change set status",
                                                   "none"), FALSE, calls)
                              /\ UNCHANGED stdout
    /\ UNCHANGED <<prep, createOut>>
    /\ UNCHANGED <<cancelled, cancelAt, remote, deferred, logs, input, nfetch>>

\* A create failure that gives way to the error of the events fetch.
AfterEventsEscalated(res) ==
    IF res = "ok" THEN Error("change set create: status, reason", "none")
    ELSE Error("DescribeEvents", res)

\* What run() returns after logChangeSetFailedEvents returned with res:
\* the create failure, the error of the fetch being logged only.
AfterEvents(res) == Error("change set create: status, reason", "none")

\* logChangeSetFailedEvents returns: the events are logged, or the error
\* is; run() returns the create failure either way.
DescribeEventsReturn ==
    /\ pc = "eventsCall"
    /\ \E res \in Outcomes("run") :
        /\ resp' = Returned("DescribeEvents", res)
        /\ logs' = Append(logs, IF res = "ok" THEN "failed events"
                                ELSE "DescribeEvents: error")
        /\ Return(153, AfterEvents(res), FALSE, calls)
    /\ UNCHANGED <<prep, createOut>>
    /\ UNCHANGED <<cancelled, cancelAt, remote, deferred, descOut, stdout,
                   input, nfetch>>

\* The read of the answer returns with what the operator supplied.
ReadAnswer ==
    /\ pc = "prompt"
    /\ \E in \in Inputs :
        LET r == ReadString(LimitReader(in, InputLimit), "\n")
        IN  /\ input' = [read |-> TRUE, bytes |-> in]
            /\ IF r.eof
               THEN Return(182, Error("EOF", "none"), FALSE, calls)
               ELSE IF AnswerIsYes(ToLower(TrimSpace(r.line)))
                    THEN Issue("ExecuteChangeSet", "executeCall")
                    ELSE Return(187, Error("aborted", "none"), FALSE, calls)
    /\ UNCHANGED <<prep, createOut>>
    /\ UNCHANGED <<cancelled, cancelAt, remote, deferred, descOut, resp,
                   stdout, logs, nfetch>>

\* The service takes an execute request for a created change set that is
\* available for execution.
Executable(cs) ==
    cs.exists /\ cs.status = "CREATE_COMPLETE" /\ cs.exec = "AVAILABLE"

\* ExecuteChangeSet returns; on success the browser is opened (or the
\* failure to do so logged) and the execute wait loop entered.
ExecuteChangeSetReturn ==
    /\ pc = "executeCall"
    /\ \E res \in Outcomes("run"), applied \in BOOLEAN, opened \in BOOLEAN :
        /\ res = "ok" => applied
        /\ applied => (Executable(remote) /\ ~dead)
        /\ applied => Resolves(calls[Len(calls)].to, remote)
        /\ resp' = Returned("ExecuteChangeSet", res)
        /\ remote' = IF applied
                     THEN [remote EXCEPT !.exec = "EXECUTE_IN_PROGRESS"]
                     ELSE remote
        /\ IF res # "ok"
           THEN /\ Return(191, Error("ExecuteChangeSet", res), FALSE, calls)
                /\ UNCHANGED <<logs, nfetch>>
           ELSE /\ logs' = logs \o <<"waiting for update to complete">>
                               \o (IF opened THEN <<>>
                                   ELSE <<"opening browser: error">>)
                /\ nfetch' = 0
                /\ Goto("executeWait")
    /\ UNCHANGED <<prep, createOut>>
    /\ UNCHANGED <<cancelled, cancelAt, deferred, descOut, stdout, input>>

\* select: case <-ticker.C, then the DescribeChangeSet call is issued.
ExecuteWaitTick ==
    /\ pc = "executeWait"
    /\ nfetch < MaxFetches
    /\ nfetch' = nfetch + 1
    /\ Issue("DescribeChangeSet", "executeFetch")
    /\ UNCHANGED <<prep, createOut>>
    /\ UNCHANGED <<cancelled, cancelAt, remote, deferred, descOut, resp,
                   stdout, logs, input>>

\* select: case <-ctx.Done(): return ctx.Err()
ExecuteWaitDone ==
    /\ pc = "executeWait"
    /\ cancelled
    /\ Return(203, Error("context", "canceled"), FALSE, calls)
    /\ UNCHANGED <<prep, createOut>>
    /\ UNCHANGED <<cancelled, cancelAt, remote, deferred, descOut, resp,
                   stdout, logs, input, nfetch>>

\* The DescribeChangeSet call of the execute wait loop returns, and the
\* switch on descOut.ExecutionStatus is taken.
DescribeExecuteReturn ==
    /\ pc = "executeFetch"
    /\ \E res \in Outcomes("run") :
        /\ res = "ok" => Resolves(calls[Len(calls)].to, remote)
        /\ LET d == IF res = "ok" THEN Snapshot(remote) ELSE NilDesc
               c == ExecuteClassify(d.exec)
           IN  /\ resp' = Returned("DescribeChangeSet", res)
               /\ descOut' = d
               /\ IF PollError(res)
                  THEN Return(208, Error("DescribeChangeSet", res), FALSE, calls)
                  ELSE CASE c = "continue" -> Goto("executeWait")
                         [] c = "complete" -> Return(219, NilErr, TRUE, calls)
                         [] OTHER ->
                              Return(215, Error("change set execution status",
                                                "none"), FALSE, calls)
    /\ UNCHANGED <<prep, createOut>>
    /\ UNCHANGED <<cancelled, cancelAt, remote, deferred, stdout, logs, input,
                   nfetch>>

\* The DeleteChangeSet call of the deferred function returns; an error is
\* logged, and run() has returned.
DeleteChangeSetReturn ==
    /\ pc = "deleteCall"
    /\ \E res \in Outcomes(calls[Len(calls)].ctx), applied \in BOOLEAN :
        /\ res = "ok" => (applied \/ ~Resolves(calls[Len(calls)].to, remote))
        /\ applied => Resolves(calls[Len(calls)].to, remote)
        /\ dead => ~applied
        /\ resp' = Returned("DeleteChangeSet", res)
        /\ remote' = IF applied THEN [remote EXCEPT !.exists = FALSE]
                     ELSE remote
        /\ logs' = IF res # "ok" THEN Append(logs, "change set delete: error")
                   ELSE logs
    /\ Goto("done")
    /\ UNCHANGED <<prep, createOut>>
    /\ UNCHANGED <<cancelled, cancelAt, deferred, descOut, stdout, input,
                   nfetch>>

----------------------------------------------------------------------------
(* The surroundings: the interrupt signal and the service.                 *)

\* os.Interrupt arrives: the context of signal.NotifyContext is done.
Interrupt ==
    /\ pc # "done"
    /\ ~cancelled
    /\ cancelled' = TRUE
    /\ cancelAt' = pc
    /\ UNCHANGED <<prep, createOut>>
    /\ UNCHANGED <<pc, remote, deferred, skipChangeSetDelete, descOut, err,
                   ret, calls, dead, resp, stdout, logs, input, nfetch>>

\* The service works on the creation of the change set.
RemoteCreateProgress ==
    /\ remote.exists
    /\ remote.status = "CREATE_PENDING"
    /\ remote' = [remote EXCEPT !.status = "CREATE_IN_PROGRESS"]
    /\ UNCHANGED <<prep, createOut>>
    /\ UNCHANGED <<pc, cancelled, cancelAt, deferred, skipChangeSetDelete,
                   descOut, err, ret, calls, dead, resp, stdout, logs, input,
                   nfetch>>

\* The creation ends: complete with its changes, or failed with a reason.
RemoteCreateFinish ==
    /\ remote.exists
    /\ remote.status = "CREATE_IN_PROGRESS"
    /\ \/ \E ch \in ChangeLists :
            remote' = [remote EXCEPT !.status = "CREATE_COMPLETE",
                                     !.exec = "AVAILABLE", !.changes = ch]
       \/ \E r \in StatusReasons :
            remote' = [remote EXCEPT !.status = "FAILED", !.reason = r]
    /\ UNCHANGED <<prep, createOut>>
    /\ UNCHANGED <<pc, cancelled, cancelAt, deferred, skipChangeSetDelete,
                   descOut, err, ret, calls, dead, resp, stdout, logs, input,
                   nfetch>>

\* Someone else acts on the stack or the change set: another change set of
\* the stack is executed (this one becomes obsolete), or a delete of this
\* one is tried and fails.
RemoteOtherActor ==
    /\ Executable(remote)
    /\ \/ remote' = [remote EXCEPT !.exec = "OBSOLETE"]
       \/ remote' = [remote EXCEPT !.status = "DELETE_FAILED"]
    /\ UNCHANGED <<prep, createOut>>
    /\ UNCHANGED <<pc, cancelled, cancelAt, deferred, skipChangeSetDelete,
                   descOut, err, ret, calls, dead, resp, stdout, logs, input,
                   nfetch>>

\* The execution ends.
RemoteExecuteFinish ==
    /\ remote.exists
    /\ remote.exec = "EXECUTE_IN_PROGRESS"
    /\ \E e \in {"EXECUTE_COMPLETE", "EXECUTE_FAILED"} :
        remote' = [remote EXCEPT !.exec = e]
    /\ UNCHANGED <<prep, createOut>>
    /\ UNCHANGED <<pc, cancelled, cancelAt, deferred, skipChangeSetDelete,
                   descOut, err, ret, calls, dead, resp, stdout, logs, input,
                   nfetch>>

\* The steps run() takes by itself once it is scheduled.
RunStep ==
    \/ Prepare
    \/ ListBucketsReturn
    \/ PutObjectReturn
    \/ CreateChangeSet
    \/ CreateChangeSetReturn
    \/ CreateWaitTick
    \/ CreateWaitDone
    \/ DescribeCreateReturn
    \/ DescribeEventsReturn
    \/ ExecuteChangeSetReturn
    \/ ExecuteWaitTick
    \/ ExecuteWaitDone
    \/ DescribeExecuteReturn
    \/ DeleteChangeSetReturn

Next ==
    \/ RunStep
    \/ ReadAnswer
    \/ Interrupt
    \/ RemoteCreateProgress
    \/ RemoteCreateFinish
    \/ RemoteOtherActor
    \/ RemoteExecuteFinish

Spec == Init /\ [][Next]_vars

----------------------------------------------------------------------------
(* Properties.                                                             *)

DeleteIssued == Issued("DeleteChangeSet")

ExecuteIssued == Issued("ExecuteChangeSet")

\* The return statements of the create wait loop and of the execute wait
\* loop.
CreatePollReturns == {134, 139, 153, 155, 157}

ExecutePollReturns == {203, 208, 215}

\* C1: DeleteChangeSet is issued when run() leaves through a failure of the
\* create wait loop, through the confirmation gate, through an
\* ExecuteChangeSet error or through a failure of the execute wait loop; it
\* is not issued when CreateChangeSet fails nor when the execution was seen
\* complete.
C1_CleanupPaths ==
    /\ ret = 107 => ~DeleteIssued
    /\ ret \in CreatePollReturns => DeleteIssued
    /\ ret \in {182, 187} => DeleteIssued
    /\ ret = 191 => DeleteIssued
    /\ ret \in ExecutePollReturns => DeleteIssued
    /\ ret = 219 => ~DeleteIssued
    /\ ret = 0 => ~DeleteIssued

C1_Witness ==
    /\ pc = "done"
    /\ ret = 219
    /\ ~DeleteIssued
    /\ ExecuteIssued

\* C2 as stated: once run() has returned after a successful
\* CreateChangeSet, the change set is deleted on the service or its
\* execution is complete.
C2_Original ==
    (pc = "done" /\ deferred) =>
        (~remote.exists \/ remote.exec = "EXECUTE_COMPLETE")

\* C2 as amended: once run() has returned after a successful
\* CreateChangeSet, either DeleteChangeSet was issued, and the change set
\* is gone unless that call failed and the failure was logged, or no
\* delete was issued and the change set is left with its execution
\* complete.
C2_DeletedOrExecuted ==
    (pc = "done" /\ deferred) =>
        \/ /\ DeleteIssued
           /\ resp.op = "DeleteChangeSet"
           /\ resp.res = "ok" => ~remote.exists
           /\ remote.exists =>
                (resp.res # "ok" /\ logs[Len(logs)] = "change set delete: error")
        \/ /\ ~DeleteIssued
           /\ remote.exists
           /\ remote.exec = "EXECUTE_COMPLETE"

C2_Witness ==
    /\ pc = "done"
    /\ deferred
    /\ DeleteIssued
    /\ remote.exists
    /\ remote.exec = "AVAILABLE"

\* C3 as stated: DeleteChangeSet is never issued against a change set
\* whose execution is complete on the service.
C3_Original ==
    [][(pc # "deleteCall" /\ pc' = "deleteCall")
         => remote.exec # "EXECUTE_COMPLETE"]_vars

\* C3 as amended: after a successful CreateChangeSet, DeleteChangeSet is
\* issued on return if and only if no status fetch of the run saw the
\* execution complete; a delete in flight against a change set whose
\* execution is complete on the service is one whose completion the run
\* did not see.
C3_DeleteUnlessSeenComplete ==
    /\ (deferred /\ ret # 0) =>
         (DeleteIssued <=> descOut.exec # "EXECUTE_COMPLETE")
    /\ (pc = "deleteCall" /\ remote.exec = "EXECUTE_COMPLETE") =>
         (descOut.exec # "EXECUTE_COMPLETE" /\ ret \in {191, 203, 208})

C3_Witness ==
    /\ pc = "deleteCall"
    /\ remote.exists
    /\ remote.exec = "EXECUTE_COMPLETE"
    /\ ret = 203

\* The answer the claim accepts: within the first InputLimit bytes there is
\* a line end, and the line before it is, blanks around it and case
\* apart, y or yes.
SaysYes(in) ==
    \E n \in 1..Len(in) :
        /\ n <= 10
        /\ in[n] = "\n"
        /\ \A j \in 1..(n - 1) : in[j] # "\n"
        /\ \E a \in 1..n, b \in 1..n :
            /\ \A j \in 1..n : (j < a \/ j > b) => in[j] \in {" ", "\t", "\r", "\n"}
            /\ \/ b = a /\ in[a] \in {"y", "Y"}
               \/ /\ b = a + 2
                  /\ in[a] \in {"y", "Y"}
                  /\ in[a + 1] \in {"e", "E"}
                  /\ in[a + 2] \in {"s", "S"}

\* C4: ExecuteChangeSet is issued only after an answer that says yes; any
\* other answer (a no, an empty line, an input that ends without a line
\* end, a line longer than the limit) makes run() return an error with
\* DeleteChangeSet issued and ExecuteChangeSet never issued.
C4_ConfirmGate ==
    /\ ExecuteIssued => (input.read /\ SaysYes(input.bytes))
    /\ (input.read /\ ~SaysYes(input.bytes)) =>
         /\ ret \in {182, 187}
         /\ err # NilErr
         /\ DeleteIssued
         /\ ~ExecuteIssued

C4_Witness ==
    /\ pc = "done"
    /\ input.read
    /\ input.bytes = <<"N", "\n">>
    /\ err.msg = "aborted"
    /\ DeleteIssued
    /\ ~ExecuteIssued

\* The places of the two wait loops: the select, the status fetch, and the
\* fetch of the failed events inside the create loop's switch.
PollLoopPlaces ==
    {"createWait", "createFetch", "eventsCall", "executeWait", "executeFetch"}

\* C5 as stated: when the signal arrives while run() is in one of the wait
\* loops, DeleteChangeSet is issued, under the context of the deferred
\* function, and does not fail with the cancellation of the run context.
C5_Original ==
    (pc = "done" /\ cancelAt \in PollLoopPlaces) =>
        /\ DeleteIssued
        /\ calls[Len(calls)] = Call("DeleteChangeSet", "cleanup")
        /\ resp.res # "canceled"

\* C5 as amended: when the signal arrives while run() is in one of the
\* wait loops, then unless a status fetch already in flight still reports
\* the execution complete (run() then returns nil and no delete is due),
\* DeleteChangeSet is the last call issued, under the context of the
\* deferred function, and it does not fail with the cancellation of the
\* run context.
C5_CleanupAfterCancel ==
    /\ (cancelAt \in PollLoopPlaces /\ ret \notin {0, 219}) =>
         /\ DeleteIssued
         /\ calls[Len(calls)] = Call("DeleteChangeSet", "cleanup")
         /\ ~dead
         /\ pc = "done" => (resp.op = "DeleteChangeSet" /\ resp.res # "canceled")
    /\ (cancelAt \in PollLoopPlaces /\ ret = 219) => cancelAt = "executeFetch"

C5_Witness ==
    /\ pc = "done"
    /\ cancelAt = "executeWait"
    /\ ret = 203
    /\ resp = Returned("DeleteChangeSet", "ok")
    /\ ~remote.exists

\* C6 as stated: once the signal has arrived, a wait loop blocked in its
\* select issues no further status fetch.
C6_Original ==
    [][(cancelled /\ pc \in {"createWait", "executeWait"})
         => pc' \notin {"createFetch", "executeFetch"}]_vars

\* The steps run() can take without a tick, and without the operator.
UnwindStep ==
    \/ CreateChangeSet
    \/ CreateChangeSetReturn
    \/ CreateWaitDone
    \/ DescribeCreateReturn
    \/ DescribeEventsReturn
    \/ ExecuteChangeSetReturn
    \/ ExecuteWaitDone
    \/ DescribeExecuteReturn
    \/ DeleteChangeSetReturn

C8_FetchErrorEndsLoop ==
    /\ (resp.op = "DescribeChangeSet" /\ resp.res # "ok") =>
         /\ ret \in {139, 208}
         /\ pc = "deleteCall"
         /\ err = Error("DescribeChangeSet", resp.res)
    /\ ret \in {139, 208} =>
         /\ err.msg = "DescribeChangeSet"
         /\ err.cause \in {"remote", "canceled"}
         /\ Len(calls) >= 2
         /\ calls[Len(calls)].op = "DeleteChangeSet"
         /\ calls[Len(calls) - 1].op = "DescribeChangeSet"
         /\ ret = 139 => ~ExecuteIssued
    /\ ret \in {153, 155, 157, 162, 215} => err.msg # "DescribeChangeSet"

C8_Witness ==
    /\ pc = "done"
    /\ ret = 208
    /\ err = Error("DescribeChangeSet", "remote")
    /\ ExecuteIssued
    /\ nfetch = 2

\* C9: the switch of the create wait loop: on CREATE_PENDING and
\* CREATE_IN_PROGRESS the loop waits for the next tick; on CREATE_COMPLETE
\* it is left towards the prompt (or the checks before it fail); on FAILED
\* run() returns a create failure, with a delete issued; on any other
\* status run() returns the unexpected status error, with a delete issued.
\* run() is at the prompt only after CREATE_COMPLETE was fetched.
C9_CreateClassifier ==
    /\ [][(pc = "createFetch" /\ pc' # "createFetch" /\ resp'.res = "ok") =>
            /\ descOut' = Snapshot(remote)
            /\ descOut'.status \in {"CREATE_PENDING", "CREATE_IN_PROGRESS"} =>
                 (pc' = "createWait" /\ ret' = 0 /\ calls' = calls)
            /\ descOut'.status = "CREATE_COMPLETE" =>
                 (pc' = "prompt" \/ ret' \in {162, 170})
            /\ descOut'.status = "FAILED" =>
                 \/ ret' \in {153, 155} /\ pc' = "deleteCall"
                 \/ ret' = 0 /\ pc' = "eventsCall"
            /\ descOut'.status \notin {"CREATE_PENDING", "CREATE_IN_PROGRESS",
                                       "CREATE_COMPLETE", "FAILED"} =>
                 /\ ret' = 157
                 /\ err' = Error("unexpected change set status", "none")
                 /\ pc' = "deleteCall"]_vars
    /\ [](pc = "prompt" => descOut.status = "CREATE_COMPLETE")
    /\ [](pc = "eventsCall" => descOut.status = "FAILED")
    /\ [](ret \in {153, 155, 157} => (DeleteIssued /\ err # NilErr))

C9_Witness ==
    /\ pc = "done"
    /\ ret = 157
    /\ descOut.status = "DELETE_FAILED"
    /\ DeleteIssued

\* run() has fetched FAILED with a reason that points to the events.
FailedWithMarker ==
    /\ descOut.status = "FAILED"
    /\ ~descOut.reason.isnil
    /\ \E i \in 1..Len(descOut.reason.text) :
         descOut.reason.text[i] = "DescribeEvents"

EventsLogged == \E i \in 1..Len(logs) : logs[i] = "failed events"

\* C10 as stated: when FAILED is fetched with a reason that points to the
\* events, the failed events are fetched and logged before run() returns.
C10_Original ==
    (pc = "done" /\ FailedWithMarker) =>
        (Issued("DescribeEvents") /\ EventsLogged)

\* The place of the CreateChangeSet call among the calls issued.
CreateAt == CHOOSE i \in 1..Len(calls) : calls[i].op = "CreateChangeSet"

\* C10 as amended: when FAILED is fetched with a reason that points to
\* the events, the fetch of the failed events is issued before run()
\* returns, and the events are logged if it succeeds (its error is logged
\* if it fails); run() then returns the create failure with the delete
\* issued after the events call, nothing written to the operator and no
\* execute issued, after any number of fetches; the events are fetched in
\* no other situation.
C10_FailedEvents ==
    /\ (FailedWithMarker /\ pc \notin {"createFetch", "createWait"}) =>
         /\ Issued("DescribeEvents")
         /\ pc \in {"eventsCall", "deleteCall", "done"}
         /\ pc # "eventsCall" =>
              /\ ret = 153
              /\ err = Error("change set create: status, reason", "none")
              /\ Len(calls) = CreateAt + nfetch + 2
              /\ calls[Len(calls) - 1].op = "DescribeEvents"
              /\ calls[Len(calls)].op = "DeleteChangeSet"
              /\ EventsLogged \/ logs[2] = "DescribeEvents: error"
              /\ resp = Returned("DescribeEvents", "ok") => EventsLogged
         /\ stdout = <<>>
         /\ ~input.read
         /\ ~ExecuteIssued
    /\ Issued("DescribeEvents") => FailedWithMarker
    /\ EventsLogged => Issued("DescribeEvents")

C10_Witness ==
    /\ pc = "done"
    /\ FailedWithMarker
    /\ nfetch = 3
    /\ EventsLogged
    /\ DeleteIssued

\* C11: when CREATE_COMPLETE is fetched and the execution status is not
\* AVAILABLE, run() returns the execution status error at once, with the
\* delete issued; no table and no prompt is written, no answer is read and
\* no execute is issued.
C11_ExecutionStatusGate ==
    /\ [][(/\ pc = "createFetch" /\ pc' # "createFetch"
           /\ resp'.res = "ok"
           /\ descOut'.status = "CREATE_COMPLETE"
           /\ descOut'.exec # "AVAILABLE") =>
            /\ ret' = 162
            /\ err' = Error("unexpected change set execution status", "none")
            /\ pc' = "deleteCall"
            /\ calls' = Append(calls, Call("DeleteChangeSet", "cleanup"))]_vars
    /\ [](ret = 162 =>
            /\ descOut.status = "CREATE_COMPLETE"
            /\ descOut.exec # "AVAILABLE"
            /\ stdout = <<>>
            /\ ~input.read
            /\ ~ExecuteIssued
            /\ DeleteIssued
            /\ calls[Len(calls)].op = "DeleteChangeSet"
            /\ err # NilErr)
    /\ [](pc = "prompt" => descOut.exec = "AVAILABLE")

C11_Witness ==
    /\ pc = "done"
    /\ ret = 162
    /\ descOut.status = "CREATE_COMPLETE"
    /\ descOut.exec = "OBSOLETE"
    /\ resp = Returned("DeleteChangeSet", "ok")

\* C12: the switch of the execute wait loop: on EXECUTE_IN_PROGRESS the
\* loop waits for the next tick; on EXECUTE_COMPLETE run() returns nil and
\* no delete is issued; on every other execution status (AVAILABLE,
\* UNAVAILABLE, EXECUTE_FAILED, OBSOLETE) run() returns the execution
\* status error, with the delete issued.
C12_ExecuteClassifier ==
    /\ [][(pc = "executeFetch" /\ pc' # "executeFetch" /\ resp'.res = "ok") =>
            /\ descOut' = Snapshot(remote)
            /\ descOut'.exec = "EXECUTE_IN_PROGRESS" =>
                 (pc' = "executeWait" /\ ret' = 0 /\ calls' = calls)
            /\ descOut'.exec = "EXECUTE_COMPLETE" =>
                 /\ pc' = "done"
                 /\ ret' = 219
                 /\ err' = NilErr
                 /\ calls' = calls
            /\ descOut'.exec \notin {"EXECUTE_IN_PROGRESS",
                                     "EXECUTE_COMPLETE"} =>
                 /\ pc' = "deleteCall"
                 /\ ret' = 215
                 /\ err' = Error("change set execution status", "none")
                 /\ calls' = Append(calls, Call("DeleteChangeSet", "cleanup"))
         ]_vars
    /\ [](ret = 219 => (descOut.exec = "EXECUTE_COMPLETE" /\ ~DeleteIssued))
    /\ [](ret = 215 =>
            /\ descOut.exec \notin {"EXECUTE_IN_PROGRESS", "EXECUTE_COMPLETE"}
            /\ DeleteIssued
            /\ err # NilErr)
    /\ [](\A e \in ExecutionStatus :
            ExecuteClassify(e) =
                CASE e = "EXECUTE_IN_PROGRESS" -> "continue"
                  [] e = "EXECUTE_COMPLETE" -> "complete"
                  [] OTHER -> "failed")

C12_Witness ==
    /\ pc = "done"
    /\ ret = 215
    /\ descOut.exec = "EXECUTE_FAILED"
    /\ nfetch = 2
    /\ resp = Returned("DeleteChangeSet", "ok")

\* The statuses on which the wait loops go on waiting.
CreateWaiting == {"CREATE_PENDING", "CREATE_IN_PROGRESS"}

ExecuteWaiting == {"EXECUTE_IN_PROGRESS"}

\* The step is the return of a status fetch that succeeded.
FetchReturns(at) == pc = at /\ pc' # at /\ resp'.res = "ok"

\* What a fetch that goes on waiting leaves as it is: the calls issued, the
\* change set on the service, what was written, and that run() has not
\* returned.
FetchKeeps(wait) ==
    /\ pc' = wait
    /\ UNCHANGED <<calls, remote, deferred, skipChangeSetDelete, err, ret,
                   stdout, logs, input, nfetch, inp, createOut>>

\* C13: in both wait loops a fetch that returns a status to wait on changes
\* nothing but descOut: no call is issued, and run() waits in the same loop;
\* a fetch that returns another status leaves the loop in that step, and
\* in the loop a fetch is issued only while every status fetched so far was
\* one to wait on, so none is issued after the loop was left.
C13_PollIdempotent ==
    /\ [][(FetchReturns("createFetch")
             /\ descOut'.status \in CreateWaiting) =>
            FetchKeeps("createWait")]_vars
    /\ [][(FetchReturns("executeFetch")
             /\ descOut'.exec \in ExecuteWaiting) =>
            FetchKeeps("executeWait")]_vars
    /\ [][(FetchReturns("createFetch")
             /\ descOut'.status \notin CreateWaiting) =>
            pc' \in {"prompt", "eventsCall", "deleteCall"}]_vars
    /\ [][(FetchReturns("executeFetch")
             /\ descOut'.exec \notin ExecuteWaiting) =>
            pc' \in {"deleteCall", "done"}]_vars
    /\ [](pc = "createWait" =>
            (nfetch = 0 \/ descOut.status \in CreateWaiting))
    /\ [](pc = "createFetch" =>
            (nfetch = 1 \/ descOut.status \in CreateWaiting))
    /\ [](pc = "executeWait" =>
            (nfetch = 0 \/ descOut.exec \in ExecuteWaiting))
    /\ [](pc = "executeFetch" =>
            (nfetch = 1 \/ descOut.exec \in ExecuteWaiting))
    /\ [][(Len(calls') > Len(calls)
             /\ calls'[Len(calls')].op = "DescribeChangeSet") =>
            /\ pc \in {"createWait", "executeWait"}
            /\ nfetch' = nfetch + 1
            /\ nfetch = 0 \/ (pc = "createWait"
                                 /\ descOut.status \in CreateWaiting)
                         \/ (pc = "executeWait"
                                 /\ descOut.exec \in ExecuteWaiting)]_vars

C13_Witness ==
    /\ pc = "executeWait"
    /\ nfetch = 2
    /\ descOut.exec = "EXECUTE_IN_PROGRESS"
    /\ Len(calls) = CreateAt + 6

\* The value the arguments give for a parameter key, "nil" if none.
Override(key) ==
    IF \E j \in 1..Len(args) : args[j].key = key
    THEN args[CHOOSE j \in 1..Len(args) : args[j].key = key].value
    ELSE "nil"

\* C14 as stated: the parameters of the create request are one for each
\* parameter of the stack, in its order: with the value of the override
\* when the arguments give one for the key, marked to use the previous
\* value otherwise.
C14_Original ==
    Issued("CreateChangeSet") =>
        /\ Len(inp.params) = Len(Stack.params)
        /\ \A i \in 1..Len(Stack.params) :
             /\ inp.params[i].key = Stack.params[i]
             /\ IF Override(Stack.params[i]) # "nil"
                THEN /\ inp.params[i].value = Override(Stack.params[i])
                     /\ ~inp.params[i].usePrevious
                ELSE /\ inp.params[i].usePrevious
                     /\ inp.params[i].value = "nil"

\* suffix := "-" + region, for the region of the stack.
RegionSuffix == <<"-", arnRegion(Stack.id).region>>

PutObjectCalls == {i \in 1..Len(calls) : calls[i].op = "PutObject"}

\* C15: with a template over the inline limit, run() returns the upload
\* error as soon as a page of the listing fails, the listing ends without a
\* bucket named after the region, or PutObject fails: it has issued no
\* CreateChangeSet then and issues no DeleteChangeSet, and PutObject is
\* issued at most once.  CreateChangeSet is issued for such a template
\* only with the URL of a bucket named after the region, after PutObject
\* succeeded; a template within the limit is passed inline with no upload.
C15_UploadFailureEndsRun ==
    /\ [][(pc \in {"listCall", "putCall"} /\ pc' # pc
             /\ resp'.res # "ok") =>
            /\ pc' = "done"
            /\ ret' = 99
            /\ err' = Error("uploading template", resp'.res)
            /\ calls' = calls]_vars
    /\ [][(pc = "listCall" /\ pc' = "done" /\ resp'.res = "ok") =>
            /\ ret' = 99
            /\ err' = Error("uploading template", "cannot discover bucket")
            /\ calls' = calls]_vars
    /\ [](ret = 99 =>
            /\ pc = "done"
            /\ template > InlineLimit
            /\ err # NilErr
            /\ ~Issued("CreateChangeSet")
            /\ ~DeleteIssued
            /\ ~remote.exists)
    /\ [](Cardinality(PutObjectCalls) <= 1)
    /\ [](pc = "putCall" => HasSuffix(bucket, RegionSuffix))
    /\ []((template > InlineLimit /\ pc = "start") =>
            resp = Returned("PutObject", "ok"))
    /\ []((template > InlineLimit /\ Issued("CreateChangeSet")) =>
            /\ Cardinality(PutObjectCalls) = 1
            /\ inp.body = "nil"
            /\ HasSuffix(inp.url.path[1], RegionSuffix))
    /\ [](template <= InlineLimit =>
            /\ ~Issued("ListBuckets") /\ ~Issued("PutObject")
            /\ pc # "begin" => (inp.body = "inline" /\ inp.url = NilURL))

C15_Witness ==
    /\ ret = 99
    /\ template = 51201
    /\ npages = 2
    /\ err = Error("uploading template", "cannot discover bucket")
    /\ calls = <<Call("ListBuckets", "run"), Call("ListBuckets", "run")>>

\* The list of changes has an entry of another type than Resource.
HasUnsupported(changes) ==
    \E i \in 1..Len(changes) : changes[i] # "Resource"

\* C16: when the change set fetched as created and available holds a
\* change of another type than Resource, run() returns the unsupported
\* change type error in that step, with the delete issued: nothing is
\* written to the operator (no header and none of the rows before the
\* unsupported change, no prompt), no answer is read, no execute is issued.
C16_UnsupportedChange ==
    /\ [][(/\ FetchReturns("createFetch")
           /\ descOut'.status = "CREATE_COMPLETE"
           /\ descOut'.exec = "AVAILABLE"
           /\ HasUnsupported(descOut'.changes)) =>
            /\ ret' = 170
            /\ err' = Error("unsupported change type", "none")
            /\ pc' = "deleteCall"
            /\ calls' = Append(calls, Call("DeleteChangeSet", "cleanup"))
            /\ stdout' = <<>>]_vars
    /\ [](ret = 170 =>
            /\ HasUnsupported(descOut.changes)
            /\ stdout = <<>>
            /\ ~input.read
            /\ ~ExecuteIssued
            /\ DeleteIssued
            /\ err # NilErr)
    /\ [](pc = "prompt" => ~HasUnsupported(descOut.changes))
    /\ [](ExecuteIssued => ~HasUnsupported(remote.changes))

C16_Witness ==
    /\ pc = "done"
    /\ ret = 170
    /\ descOut.changes = <<"Resource", "Hook">>
    /\ stdout = <<>>
    /\ resp = Returned("DeleteChangeSet", "ok")

\* What run() writes when it asks: an empty line, then the question.
PromptLines == <<"", "Do you want to continue? [y/N] ">>

\* C17: when the change set fetched as created and available has no
\* changes, neither the header nor a row of the table is written, the
\* prompt is written all the same, and the answer is read: the execute is
\* issued on a yes, run() returns with the delete issued on anything else.
C17_EmptyChangeList ==
    /\ [][(/\ FetchReturns("createFetch")
           /\ descOut'.status = "CREATE_COMPLETE"
           /\ descOut'.exec = "AVAILABLE"
           /\ descOut'.changes = <<>>) =>
            /\ pc' = "prompt"
            /\ stdout' = PromptLines
            /\ ret' = 0
            /\ calls' = calls]_vars
    /\ [][(pc = "prompt" /\ pc' # "prompt" /\ descOut.changes = <<>>) =>
            /\ input'.read
            /\ stdout' = PromptLines
            /\ IF SaysYes(input'.bytes)
               THEN /\ pc' = "executeCall"
                    /\ calls' = Append(calls, Call("ExecuteChangeSet", "run"))
               ELSE /\ pc' = "deleteCall"
                    /\ ret' \in {182, 187}
                    /\ calls' = Append(calls,
                                       Call("DeleteChangeSet", "cleanup"))
         ]_vars
    /\ []((descOut.status = "CREATE_COMPLETE" /\ descOut.changes = <<>>) =>
            stdout \in {<<>>, PromptLines})
    /\ []((stdout = PromptLines /\ ExecuteIssued) =>
            (input.read /\ SaysYes(input.bytes)))

C17_Witness ==
    /\ pc = "executeCall"
    /\ descOut.changes = <<>>
    /\ stdout = PromptLines
    /\ input.bytes = <<"y", "e", "s", "\n">>

\* C18: the outcome of the fetch of the failed events, of opening the
\* browser and of the delete is logged and has no other effect on what
\* run() does: after the events fetch run() returns the create failure and
\* issues the delete, whatever the fetch returned; after an accepted
\* execute run() enters the execute wait loop, whether or not the browser
\* opened; after the delete run() has returned what it was returning, with
\* no further call, whatever the delete returned.  So two runs that differ
\* in these outcomes only issue the same calls and return the same.
C18_BestEffort ==
    /\ [][(pc = "eventsCall" /\ pc' # "eventsCall") =>
            /\ pc' = "deleteCall"
            /\ ret' = 153
            /\ err' = Error("change set create: status, reason", "none")
            /\ calls' = Append(calls, Call("DeleteChangeSet", "cleanup"))
            /\ UNCHANGED <<stdout, input, remote, skipChangeSetDelete>>
            /\ logs' = Append(logs, IF resp'.res = "ok" THEN "failed events"
                                    ELSE "DescribeEvents: error")]_vars
    /\ [][(pc = "executeCall" /\ pc' # "executeCall" /\ resp'.res = "ok") =>
            /\ pc' = "executeWait"
            /\ nfetch' = 0
            /\ UNCHANGED <<ret, err, calls, stdout, input,
                           skipChangeSetDelete>>
            /\ logs' \in {Append(logs, "waiting for update to complete"),
                          logs \o <<"waiting for update to complete",
                                    "opening browser: error">>}]_vars
    /\ [][(pc = "deleteCall" /\ pc' # "deleteCall") =>
            /\ pc' = "done"
            /\ UNCHANGED <<ret, err, calls, stdout, input,
                           skipChangeSetDelete>>
            /\ logs' = IF resp'.res = "ok" THEN logs
                       ELSE Append(logs, "change set delete: error")]_vars
    /\ [](pc = "done" => ret # 0)

C18_Witness ==
    /\ pc = "done"
    /\ ret = 153
    /\ err = Error("change set create: status, reason", "none")
    /\ resp = Returned("DeleteChangeSet", "deadline")
    /\ logs = <<"waiting until change set is ready", "DescribeEvents: error",
                "change set delete: error">>

\* The places of the calls of an operation among the calls issued.
CallsOf(op) == {i \in 1..Len(calls) : calls[i].op = op}

\* The change set CreateChangeSet returned: the stack and the name of the
\* request, and the id of createOut.
Created ==
    [exists |-> TRUE, stack |-> inp.stack, name |-> inp.name,
     id |-> createOut.id]

\* C19: CreateChangeSet, ExecuteChangeSet and DeleteChangeSet are issued
\* at most once each; the execute and the delete are issued only after
\* CreateChangeSet returned without error; the delete is the last call
\* issued; and every DescribeChangeSet, DescribeEvents, ExecuteChangeSet
\* and DeleteChangeSet names the change set this run created, by its id or
\* by its stack and name.
C19_OneProposal ==
    /\ Cardinality(CallsOf("CreateChangeSet")) <= 1
    /\ Cardinality(CallsOf("ExecuteChangeSet")) <= 1
    /\ Cardinality(CallsOf("DeleteChangeSet")) <= 1
    /\ \A i \in CallsOf("ExecuteChangeSet") \cup CallsOf("DeleteChangeSet") :
         /\ deferred
         /\ createOut # NilOut
         /\ CallsOf("CreateChangeSet") # {}
         /\ CreateAt < i
    /\ \A i \in CallsOf("DeleteChangeSet") : i = Len(calls)
    /\ deferred =>
         /\ remote.id = createOut.id
         /\ remote.stack = Stack.name
         /\ remote.name = inp.name
    /\ \A i \in 1..Len(calls) :
         calls[i].op \in {"DescribeChangeSet", "DescribeEvents",
                          "ExecuteChangeSet", "DeleteChangeSet"} =>
             /\ deferred
             /\ Resolves(calls[i].to, Created)
             /\ Resolves(calls[i].to, [remote EXCEPT !.exists = TRUE])

C19_Witness ==
    /\ pc = "done"
    /\ template = 51201
    /\ ret = 215
    /\ Cardinality(CallsOf("DescribeChangeSet")) = 4
    /\ CallsOf("ExecuteChangeSet") # {}
    /\ calls[Len(calls)] = Call("DeleteChangeSet", "cleanup")
    /\ ~remote.exists

\* ExecuteChangeSet returned without error: run() logs this and nothing
\* else with these words.
ExecuteAccepted ==
    \E i \in 1..Len(logs) : logs[i] = "waiting for update to complete"

\* A fetch of the execute wait loop returned EXECUTE_COMPLETE.
SeenComplete ==
    /\ ExecuteAccepted
    /\ descOut.exec = "EXECUTE_COMPLETE"
    /\ calls[Len(calls)].op = "DescribeChangeSet"

\* C20: run() returns nil exactly when ExecuteChangeSet returned without
\* error and a fetch of the execute wait loop after it returned
\* EXECUTE_COMPLETE; every other return, those on cancellation and on a
\* fetch error after the accepted execute among them, returns an error;
\* and run() returns nil exactly when the deferred function skips the
\* delete (skipChangeSetDelete is set): once the function is registered,
\* nil is returned exactly when no delete is issued.
C20_SuccessIffComplete ==
    /\ ret = 0 => (err = NilErr /\ ~skipChangeSetDelete /\ pc # "done")
    /\ ret # 0 =>
         /\ err = NilErr <=> ret = 219
         /\ err = NilErr <=> SeenComplete
         /\ err = NilErr <=> (deferred /\ skipChangeSetDelete)
         /\ deferred => (err = NilErr <=> ~DeleteIssued)
         /\ ret \in {203, 208, 215} => (ExecuteAccepted /\ err # NilErr)
    /\ pc = "done" => ret # 0

C20_Witness ==
    /\ pc = "done"
    /\ ret = 219
    /\ err = NilErr
    /\ skipChangeSetDelete
    /\ nfetch = 3
    /\ cancelled
    /\ calls[Len(calls)] = Call("DescribeChangeSet", "run")

====
